---- MODULE Spec2Model ----
(***************************************************************************)
(* ripgrepripsed (rgrs): a pipeline of ripgrep searches, sed substitutions *)
(* and filters over a set of line regions (src/src/index.ts).              *)
(*                                                                         *)
(* A JavaScript string is a sequence of one-character strings, so that     *)
(* split, join, trim, startsWith and Number are computed as the code       *)
(* computes them.  A JavaScript number is an integer, NaN is -1.           *)
(***************************************************************************)
EXTENDS Integers, Sequences, FiniteSets

VARIABLES
    scriptStrings,  \* main's argument: the stage strings of the command line
    scripts,        \* the parsed stages, the default print stage included
    index,          \* position of main's loop in scripts (0-based, as in the code)
    status,         \* main: "start", "running", "done", "failed"; the coalescer alone: "coalesce", "coalesced"
    error,          \* what main's promise rejected with, "none" while it has not
    rgRegions,      \* main's region list
    sedPos,         \* inside a sed stage: how many regions' edits have completed
    inFlight,       \* ... the sed processes started and not yet exited, oldest first
    disk,           \* file path -> the file's lines
    stdout,         \* the lines printed with console.log, oldest first
    procs,          \* the external processes that have exited, oldest first
    last,           \* history: the stage main's loop completed or failed in last
    prevRegions,    \* history: rgRegions when that stage began
    rgOut,          \* history: what the latest search process wrote, line by line
    stdinFiles,     \* history: what the latest readFilesFromStdin returned
    genLines,       \* the coalescer run alone: its input, each line with the match it renders
    genPos,         \* ... how many of them the loop has consumed
    genRegion,      \* ... the open region: <<>> when there is none, else <<region>>
    genOut          \* ... the regions yielded so far

vars == <<scriptStrings, scripts, index, status, error, rgRegions, sedPos, inFlight,
          disk, stdout, procs, last, prevRegions, rgOut, stdinFiles,
          genLines, genPos, genRegion, genOut>>

pipeVars == <<scriptStrings, scripts, index, status, error, rgRegions, sedPos, inFlight,
              disk, stdout, procs, last, prevRegions, rgOut, stdinFiles>>

genVars == <<genLines, genPos, genRegion, genOut>>

---------------------------------------------------------------------------
(* JavaScript values and string functions                                  *)

\* undefined, where a string is expected (a destructured element that is absent)
UndefinedStr == <<"undefined">>

\* undefined, where a character is expected (script[3] past the end)
UndefinedChar == "undefined"

\* Number(x) of something that is no number
NaN == -1

\* Number.MAX_SAFE_INTEGER; it is only compared, never computed with, and TLC's
\* integers are 32 bits wide, so the largest of those stands for 2^53 - 1
MAX_SAFE_INTEGER == 2147483647

Digits == <<"0", "1", "2", "3", "4", "5", "6", "7", "8", "9">>

IsDigit(c) == \E d \in 1..10 : Digits[d] = c

DigitVal(c) == (CHOOSE d \in 1..10 : Digits[d] = c) - 1

RECURSIVE Decimal(_)
Decimal(s) ==
    IF s = <<>> THEN 0
    ELSE 10 * Decimal(SubSeq(s, 1, Len(s) - 1)) + DigitVal(s[Len(s)])

\* Number(s) for the strings of the model: decimal digits, the empty string (0),
\* undefined and anything else (NaN)
Number(s) ==
    IF s = UndefinedStr THEN NaN
    ELSE IF s = <<>> THEN 0
    ELSE IF \A i \in 1..Len(s) : IsDigit(s[i]) THEN Decimal(s)
    ELSE NaN

\* a === b on numbers: NaN equals nothing
NumEq(a, b) == a # NaN /\ b # NaN /\ a = b

\* a <= b on numbers: false when either is NaN
NumLeq(a, b) == a # NaN /\ b # NaN /\ a <= b

\* a + 1 on numbers
Plus1(a) == IF a = NaN THEN NaN ELSE a + 1

RECURSIVE NumberToString(_)
\* String(n) of a number n >= 0, as Array.prototype.join renders it
NumberToString(n) ==
    IF n = NaN THEN <<"N", "a", "N">>
    ELSE IF n < 10 THEN <<Digits[n + 1]>>
    ELSE NumberToString(n \div 10) \o <<Digits[(n % 10) + 1]>>

RECURSIVE Split(_, _)
\* s.split(sep) for a one-character sep; s.split(undefined) is [s]
Split(s, sep) ==
    IF \A i \in 1..Len(s) : s[i] # sep THEN <<s>>
    ELSE LET i == CHOOSE k \in 1..Len(s) : s[k] = sep /\ \A j \in 1..(k - 1) : s[j] # sep
         IN  <<SubSeq(s, 1, i - 1)>> \o Split(SubSeq(s, i + 1, Len(s)), sep)

RECURSIVE Join(_, _)
\* parts.join(sep): undefined elements render as the empty string, and an
\* undefined sep is a comma
Join(parts, sep) ==
    IF parts = <<>> THEN <<>>
    ELSE LET h == IF parts[1] = UndefinedStr THEN <<>> ELSE parts[1]
             c == IF sep = UndefinedChar THEN "," ELSE sep
         IN  IF Len(parts) = 1 THEN h ELSE h \o <<c>> \o Join(Tail(parts), sep)

\* arr[i], 0-based, for an array of strings
At(arr, i) == IF i + 1 <= Len(arr) THEN arr[i + 1] ELSE UndefinedStr

\* s[i], 0-based, for a string
CharAt(s, i) == IF i + 1 <= Len(s) THEN s[i + 1] ELSE UndefinedChar

\* arr.slice(i)
Slice(arr, i) == SubSeq(arr, i + 1, Len(arr))

StartsWith(s, p) == Len(p) <= Len(s) /\ SubSeq(s, 1, Len(p)) = p

IsSpace(c) == c = " "

RECURSIVE Trim(_)
\* s.trim()
Trim(s) ==
    IF s = <<>> THEN s
    ELSE IF IsSpace(s[1]) THEN Trim(Tail(s))
    ELSE IF IsSpace(s[Len(s)]) THEN Trim(SubSeq(s, 1, Len(s) - 1))
    ELSE s

\* the truthiness of a string or undefined
Truthy(s) == s # UndefinedStr /\ s # <<>>

RECURSIVE Unique(_)
\* [...new Set(arr)]: the distinct elements in the order of their first occurrence
Unique(arr) ==
    IF arr = <<>> THEN <<>>
    ELSE LET front == Unique(SubSeq(arr, 1, Len(arr) - 1))
             x == arr[Len(arr)]
         IN  IF \E i \in 1..Len(front) : front[i] = x THEN front ELSE Append(front, x)

\* arr.includes(x)
Includes(arr, x) == \E i \in 1..Len(arr) : arr[i] = x

\* arr.map(f) for the field reads of the code
Filepaths(regions) == [i \in 1..Len(regions) |-> regions[i].filepath]

---------------------------------------------------------------------------
(* The region coalescer: rgLinesToRegions                                  *)

\* the generator's state: region is <<>> (undefined) or <<r>>, out is what it
\* has yielded
GenStart == [region |-> <<>>, out |-> <<>>]

\* RegionStep without its test of the file path
RegionStepAnyFile(st, line) ==
    LET parts == Split(line, ":")
        filepath == At(parts, 0)
        lineNumber == At(parts, 1)
        rest == Slice(parts, 2)
    IN  IF /\ st.region # <<>>
           /\ NumEq(Number(lineNumber), Plus1(st.region[1].lastLineNumber))
        THEN [region |-> <<[st.region[1] EXCEPT
                              !.lastLineNumber = Number(lineNumber),
                              !.lines = Append(@, Join(rest, ":"))]>>,
              out |-> st.out]
        ELSE [region |-> <<[filepath |-> filepath,
                            firstLineNumber |-> Number(lineNumber),
                            lastLineNumber |-> Number(lineNumber),
                            lines |-> <<Join(rest, ":")>>]>>,
              out |-> st.out \o st.region]

\* one turn of the for-await loop, on one line
RegionStep(st, line) ==
    LET parts == Split(line, ":")
        filepath == At(parts, 0)
        lineNumber == At(parts, 1)
        rest == Slice(parts, 2)
    IN  IF /\ st.region # <<>>
           /\ filepath = st.region[1].filepath
           /\ NumEq(Number(lineNumber), Plus1(st.region[1].lastLineNumber))
        THEN [region |-> <<[st.region[1] EXCEPT
                              !.lastLineNumber = Number(lineNumber),
                              !.lines = Append(@, Join(rest, ":"))]>>,
              out |-> st.out]
        ELSE [region |-> <<[filepath |-> filepath,
                            firstLineNumber |-> Number(lineNumber),
                            lastLineNumber |-> Number(lineNumber),
                            lines |-> <<Join(rest, ":")>>]>>,
              out |-> st.out \o st.region]

RECURSIVE RegionLoop(_, _)
\* the loop over all of lines, from state st
RegionLoop(st, lines) ==
    IF lines = <<>> THEN st ELSE RegionLoop(RegionStep(st, lines[1]), Tail(lines))

\* Returning after the loop without the last yield
RegionEndDropsOpen(st) == st.out

\* after the loop: the open region, if any, is yielded
RegionEnd(st) == st.out \o st.region

\* everything the generator yields for lines
rgLinesToRegions(lines) == RegionEnd(RegionLoop(GenStart, lines))

\* what the generator has yielded when its input throws after lines: the open
\* region is never yielded
rgLinesToRegionsThrown(lines) == RegionLoop(GenStart, lines).out

---------------------------------------------------------------------------
(* Stage strings and parseScript                                           *)

\* the words parseScript looks for
W_sed == <<"s", "e", "d">>
W_nrg == <<"!", "r", "g">>
W_rg == <<"r", "g">>
W_glob == <<"g", "l", "o", "b">>
W_printFiles == <<"p", "r", "i", "n", "t", "-", "f", "i", "l", "e", "s">>
W_printRegions == <<"p", "r", "i", "n", "t", "-", "r", "e", "g", "i", "o", "n", "s">>
W_filesFromStdin ==
    <<"f", "i", "l", "e", "s", "-", "f", "r", "o", "m", "-", "s", "t", "d", "i", "n">>

\* thrown by parseScript, as a stage that is none
UnknownScript == [type |-> "unknown"]

parseSed(script) ==
    LET separator == CharAt(script, 3)
        parts == Split(script, separator)
        function_ == At(parts, 1)
        pattern == At(parts, 2)
        replacement == At(parts, 3)
        flags == At(parts, 4)
        reconstructedScript ==
            Join(<<W_sed, function_, pattern, replacement, flags>>, separator)
    IN  IF Truthy(pattern) /\ reconstructedScript = script
        THEN [type |-> "sed", separator |-> separator, pattern |-> pattern,
              replacement |-> replacement, flags |-> flags]
        ELSE UnknownScript

parseRgNegated(script) ==
    LET separator == CharAt(script, 3)
        parts == Split(script, separator)
        pattern == At(parts, 1)
        flags == At(parts, 2)
    IN  [type |-> "rg-negated", pattern |-> pattern,
         flags |-> IF Truthy(flags) THEN flags ELSE <<>>]

parseRg(script) ==
    LET separator == CharAt(script, 2)
        parts == Split(script, separator)
    IN  [type |-> "rg", pattern |-> At(parts, 1), flags |-> At(parts, 2)]

parseGlob(script) ==
    LET separator == CharAt(script, 4)
        parts == Split(script, separator)
        pattern == At(parts, 1)
    IN  IF Truthy(pattern) THEN [type |-> "glob", pattern |-> pattern] ELSE UnknownScript

\* parseScript, the chain of its ifs in the order of the code; a sed or glob
\* string that does not parse falls through to the later ifs
parseScript(script) ==
    IF StartsWith(script, W_sed) /\ parseSed(script) # UnknownScript THEN parseSed(script)
    ELSE IF StartsWith(script, W_nrg) THEN parseRgNegated(script)
    ELSE IF StartsWith(script, W_rg) THEN parseRg(script)
    ELSE IF script = W_printFiles THEN [type |-> "print-files"]
    ELSE IF script = W_printRegions THEN [type |-> "print-regions"]
    ELSE IF StartsWith(script, W_glob) /\ parseGlob(script) # UnknownScript
         THEN parseGlob(script)
    ELSE IF script = W_filesFromStdin THEN [type |-> "files-from-stdin"]
    ELSE UnknownScript

\* scriptStrings.map(parseScript)
ParseAll(strings) == [i \in 1..Len(strings) |-> parseScript(strings[i])]

\* scripts.some(print-files or print-regions)
hasExplicitPrintCommand(parsed) ==
    \E i \in 1..Len(parsed) : parsed[i].type \in {"print-files", "print-regions"}

\* WithDefaultPrint with the push done whatever the stages are
WithDefaultPrintAlways(parsed) == Append(parsed, [type |-> "print-regions"])

\* the stage list main runs: a print-regions stage is pushed when there is no
\* print stage
WithDefaultPrint(parsed) ==
    IF hasExplicitPrintCommand(parsed) THEN parsed
    ELSE Append(parsed, [type |-> "print-regions"])

---------------------------------------------------------------------------
(* The environment: the files, the command lines, ripgrep, sed, stdin      *)

\* how many stage strings a command line has at most
MaxScripts == 2

\* how many lines the longer file has
MaxLine == 3

\* how many lines stdin has at most
MaxStdin == 2

FileA == <<"a", ".", "j", "s">>
FileB == <<"b", ".", "t", "s">>
Files == {FileA, FileB}

Foo == <<"f", "o", "o">>
Baz == <<"b", "a", "z">>
FooKV == <<"f", "o", "o", ":", "k">>

\* the working directory when main starts: a.js is foo, foo, baz, ... and
\* b.ts is the one line foo:k
InitDisk ==
    [f \in Files |->
        IF f = FileA THEN [k \in 1..MaxLine |-> IF k <= 2 THEN Foo ELSE Baz]
        ELSE <<FooKV>>]

\* the stage strings a command line is made of
S_rg == <<"r", "g", "/", "f", "o", "o", "/">>
S_nrg == <<"!", "r", "g", "/", "b", "a", "z", "/">>
S_sed == <<"s", "e", "d", "/", "s", "/", "f", "o", "o", "/", "b", "a", "r", "/", "g">>
S_glob == <<"g", "l", "o", "b", "/", "*", ".", "t", "s">>
S_bogus == <<"b", "o", "g", "u", "s">>

ScriptStrings ==
    {S_rg, S_nrg, S_sed, S_glob, W_printFiles, W_printRegions, W_filesFromStdin, S_bogus}

\* all sequences over S of length at most n
SeqsUpTo(S, n) == UNION {[1..k -> S] : k \in 0..n}

\* the elements of a set of numbers in ascending order
RECURSIVE Ascending(_)
Ascending(S) ==
    IF S = {} THEN <<>>
    ELSE LET m == CHOOSE x \in S : \A y \in S : x <= y
         IN  <<m>> \o Ascending(S \ {m})

RECURSIVE Concat(_)
Concat(seqs) == IF seqs = <<>> THEN <<>> ELSE seqs[1] \o Concat(Tail(seqs))

\* a match (filepath, lineNumber, text) with the line ripgrep writes for it:
\* filepath:lineNumber:text
Match(f, n, t) ==
    [filepath |-> f, lineNumber |-> n, text |-> t,
     line |-> Join(<<f, NumberToString(n), t>>, ":")]

\* the lines a process wrote, of the matches they render
LinesOf(matches) == [i \in 1..Len(matches) |-> matches[i].line]

\* the matches of one file, in ascending order of line number
RgFileLines(d, f, ns) ==
    LET a == Ascending(ns) IN [i \in 1..Len(a) |-> Match(f, a[i], d[f][a[i]])]

\* the orders in which the files of F can come
Orders(F) == {o \in [1..Cardinality(F) -> F] : \A i, j \in 1..Cardinality(F) : o[i] = o[j] => i = j}

\* what a search over the files of scope can write, as the search contract
\* has it (lines filepath:lineNumber:text): for any choice of matched lines per
\* file, the files with a match in any order, the lines of one file together
\* and ascending
SearchOutputs(d, scope) ==
    UNION {
        LET F == {f \in scope : sel[f] # {}}
        IN  {Concat([i \in 1..Cardinality(F) |-> RgFileLines(d, o[i], sel[o[i]])]) : o \in Orders(F)}
        : sel \in {x \in [scope -> UNION {SUBSET (1..Len(d[f])) : f \in scope}] :
                      \A f \in scope : x[f] \subseteq 1..Len(d[f])} }

\* how a search that wrote out can end (TRUE: exit status 0): ripgrep exits
\* with 1 when nothing matched and with 2 on an error, whatever it has
\* written, and execa rejects on every status but 0, once the lines are read
RgExits(out) == IF out = <<>> THEN {FALSE} ELSE BOOLEAN

\* the lines executeRg yields of what the process wrote: the blank ones are skipped
executeRg(out) == SelectSeq(out, LAMBDA line : Trim(line) # <<>>)

\* no files argument (executeRg's files parameter left undefined)
UndefinedFiles == <<UndefinedStr>>

\* the files ripgrep searches: the ones named, the working directory when none is
RgScope(d, files) ==
    IF files = UndefinedFiles \/ files = <<>> THEN DOMAIN d
    ELSE {files[i] : i \in 1..Len(files)} \cap DOMAIN d

\* the process executeRg starts, and whether it ends well
RgProc(script, files, ok) ==
    [cmd |-> "rg", pattern |-> script.pattern,
     multiline |-> Includes(script.flags, "s"), files |-> files, ok |-> ok]

RECURSIVE ReplaceAll(_, _, _)
\* s with every occurrence of the literal pat replaced by rep, left to right
ReplaceAll(s, pat, rep) ==
    IF Len(s) < Len(pat) \/ pat = <<>> THEN s
    ELSE IF StartsWith(s, pat) THEN rep \o ReplaceAll(SubSeq(s, Len(pat) + 1, Len(s)), pat, rep)
    ELSE <<s[1]>> \o ReplaceAll(Tail(s), pat, rep)

RECURSIVE ReplaceFirst(_, _, _)
ReplaceFirst(s, pat, rep) ==
    IF Len(s) < Len(pat) \/ pat = <<>> THEN s
    ELSE IF StartsWith(s, pat) THEN rep \o SubSeq(s, Len(pat) + 1, Len(s))
    ELSE <<s[1]>> \o ReplaceFirst(Tail(s), pat, rep)

\* sed --in-place 'firstLine,lastLine s/pattern/replacement/flags' on one file's lines,
\* for a literal pattern
SedLines(lines, firstLine, lastLine, script) ==
    [k \in 1..Len(lines) |->
        IF NumLeq(firstLine, k) /\ NumLeq(k, lastLine)
        THEN IF Includes(script.flags, "g")
             THEN ReplaceAll(lines[k], script.pattern, script.replacement)
             ELSE ReplaceFirst(lines[k], script.pattern, script.replacement)
        ELSE lines[k]]

\* the process sedRegion starts, and whether it ends well
SedProc(region, script, ok) ==
    [cmd |-> "sed", firstLineNumber |-> region.firstLineNumber,
     lastLineNumber |-> region.lastLineNumber,
     pattern |-> script.pattern, replacement |-> script.replacement,
     flags |-> script.flags, separator |-> script.separator,
     filepath |-> region.filepath, ok |-> ok]

RECURSIVE GlobMatch(_, _)
\* a glob of literal characters and *, which matches any run of characters
\* other than /
GlobMatch(s, p) ==
    IF p = <<>> THEN s = <<>>
    ELSE IF p[1] = "*"
         THEN GlobMatch(s, Tail(p)) \/ (s # <<>> /\ s[1] # "/" /\ GlobMatch(Tail(s), p))
    ELSE s # <<>> /\ s[1] = p[1] /\ GlobMatch(Tail(s), Tail(p))

minimatch(filepath, pattern) == GlobMatch(filepath, pattern)

\* what stdin can hold, line by line
RawStdinLines == {FileA, FileB, <<" ">> \o FileB, <<>>}

\* readFilesFromStdin: every line trimmed, the empty ones dropped
readFilesFromStdin(raw) ==
    SelectSeq([i \in 1..Len(raw) |-> Trim(raw[i])], LAMBDA trimmed : trimmed # <<>>)

---------------------------------------------------------------------------
(* main: the region algebra of the stages                                  *)

\* Overlaps with both comparisons strict
OverlapsStrict(newRegion, existingRegion) ==
    /\ newRegion.firstLineNumber # existingRegion.lastLineNumber
    /\ NumLeq(newRegion.firstLineNumber, existingRegion.lastLineNumber)
    /\ existingRegion.firstLineNumber # newRegion.lastLineNumber
    /\ NumLeq(existingRegion.firstLineNumber, newRegion.lastLineNumber)

\* the test of both filters: the two line ranges share a line
Overlaps(newRegion, existingRegion) ==
    /\ NumLeq(newRegion.firstLineNumber, existingRegion.lastLineNumber)
    /\ NumLeq(existingRegion.firstLineNumber, newRegion.lastLineNumber)

\* newRegionsByFile.get(filepath) || []: the regions of one file, in stream order
RegionsOfFile(regions, filepath) == SelectSeq(regions, LAMBDA r : r.filepath = filepath)

\* SomeOverlap that tests the file's first new region only
SomeOverlapFirstOnly(newRegions, existingRegion) ==
    newRegions # <<>> /\ Overlaps(newRegions[1], existingRegion)

\* newRegions.some(overlaps existingRegion)
SomeOverlap(newRegions, existingRegion) ==
    \E i \in 1..Len(newRegions) : Overlaps(newRegions[i], existingRegion)

\* a later rg stage: the regions that a new region of their file overlaps
IntersectByOverlap(current, new) ==
    SelectSeq(current, LAMBDA r : SomeOverlap(RegionsOfFile(new, r.filepath), r))

\* RgResult with the first stage filtered like the later ones
RgResultAlwaysFilter(first, current, new) == IntersectByOverlap(current, new)

\* RgResult that takes the search's regions whenever there is no region
RgResultReplaceWhenEmpty(first, current, new) ==
    IF first \/ current = <<>> THEN new ELSE IntersectByOverlap(current, new)

\* an rg stage, by its place in the list
RgResult(first, current, new) ==
    IF first THEN new ELSE IntersectByOverlap(current, new)

\* an rg-negated stage: the regions that no negated region of their file overlaps
SubtractByOverlap(current, negated) ==
    SelectSeq(current, LAMBDA r : ~SomeOverlap(RegionsOfFile(negated, r.filepath), r))

\* GlobFilter with the test negated
GlobFilterNegated(current, pattern) ==
    SelectSeq(current, LAMBDA r : ~minimatch(r.filepath, pattern))

\* A glob stage that, with no region to filter, expands the pattern over the
\* files on disk
GlobFilterSeedsWhenEmpty(current, pattern) ==
    IF current = <<>>
    THEN LET found == SelectSeq(<<FileA, FileB>>, LAMBDA f : minimatch(f, pattern))
         IN  [i \in 1..Len(found) |->
                 [filepath |-> found[i], firstLineNumber |-> 1,
                  lastLineNumber |-> MAX_SAFE_INTEGER, lines |-> <<>>]]
    ELSE SelectSeq(current, LAMBDA r : minimatch(r.filepath, pattern))

\* a glob stage
GlobFilter(current, pattern) == SelectSeq(current, LAMBDA r : minimatch(r.filepath, pattern))

\* WholeFile that ends at its first line
WholeFileOneLine(filepath) ==
    [filepath |-> filepath, firstLineNumber |-> 1, lastLineNumber |-> 1, lines |-> <<>>]

\* the region files-from-stdin makes of one path
WholeFile(filepath) ==
    [filepath |-> filepath, firstLineNumber |-> 1,
     lastLineNumber |-> MAX_SAFE_INTEGER, lines |-> <<>>]

\* StdinResult that seeds whenever there is no region
StdinResultSeedWhenEmpty(first, current, filesFromStdin) ==
    IF first \/ current = <<>>
    THEN current \o [i \in 1..Len(filesFromStdin) |-> WholeFile(filesFromStdin[i])]
    ELSE SelectSeq(current, LAMBDA r : Includes(filesFromStdin, r.filepath))

\* a files-from-stdin stage, by its place in the list
StdinResult(first, current, filesFromStdin) ==
    IF first
    THEN current \o [i \in 1..Len(filesFromStdin) |-> WholeFile(filesFromStdin[i])]
    ELSE SelectSeq(current, LAMBDA r : Includes(filesFromStdin, r.filepath))

\* The path of every region, a file of several regions named several times
uniqueFilesRepeated(regions) == Filepaths(regions)

\* the files a later search is given
uniqueFiles(regions) == Unique(Filepaths(regions))

\* Printing the path of every region, repeated paths included
PrintFilesLinesAll(regions) == Filepaths(regions)

\* what a print-files stage prints
PrintFilesLines(regions) == Unique(Filepaths(regions))

\* Printing a region from the lines it holds in memory
PrintRegionLinesCached(d, region) ==
    [i \in 1..Len(region.lines) |->
        Join(<<region.filepath, NumberToString(region.firstLineNumber + i - 1),
               region.lines[i]>>, ":")]

\* what a print-regions stage prints of one region: the lines of the file as it
\* is now whose number is within the region's bounds
PrintRegionLines(d, region) ==
    LET numbers == SelectSeq([k \in 1..Len(d[region.filepath]) |-> k],
                             LAMBDA lineNumber :
                                 /\ NumLeq(region.firstLineNumber, lineNumber)
                                 /\ NumLeq(lineNumber, region.lastLineNumber))
    IN  [i \in 1..Len(numbers) |->
            Join(<<region.filepath, NumberToString(numbers[i]), d[region.filepath][numbers[i]]>>, ":")]

RECURSIVE PrintRegionsRun(_, _)
\* a print-regions stage over regions: what it prints, and whether every file
\* could be read (the first that cannot ends the stage)
PrintRegionsRun(d, regions) ==
    IF regions = <<>> THEN [lines |-> <<>>, ok |-> TRUE]
    ELSE IF regions[1].filepath \notin DOMAIN d THEN [lines |-> <<>>, ok |-> FALSE]
    ELSE LET rest == PrintRegionsRun(d, Tail(regions))
         IN  [lines |-> PrintRegionLines(d, regions[1]) \o rest.lines, ok |-> rest.ok]

---------------------------------------------------------------------------
(* main as a state machine                                                 *)

NoStage == [type |-> "none", index |-> 0, ok |-> TRUE]

Init ==
    /\ scriptStrings \in SeqsUpTo(ScriptStrings, MaxScripts)
    /\ scripts = <<>>
    /\ index = 0
    /\ status = "start"
    /\ error = "none"
    /\ rgRegions = <<>>
    /\ sedPos = 0
    /\ inFlight = <<>>
    /\ disk = InitDisk
    /\ stdout = <<>>
    /\ procs = <<>>
    /\ last = NoStage
    /\ prevRegions = <<>>
    /\ rgOut = <<>>
    /\ stdinFiles = <<>>
    /\ genLines = <<>>
    /\ genPos = 0
    /\ genRegion = <<>>
    /\ genOut = <<>>

\* the stage the loop is at
Script == scripts[index + 1]

isFirstScript == index = 0

Running == status = "running" /\ index < Len(scripts)

\* the loop's continue: on to the next stage
Continue(type) ==
    /\ index' = index + 1
    /\ last' = [type |-> type, index |-> index, ok |-> TRUE]
    /\ prevRegions' = rgRegions
    /\ UNCHANGED <<status, error>>

\* Throw caught and logged: the loop goes on
ThrowSwallowed(type, what) ==
    /\ index' = index + 1
    /\ last' = [type |-> type, index |-> index, ok |-> FALSE]
    /\ prevRegions' = rgRegions
    /\ UNCHANGED <<status, error>>

\* an exception leaves main: its promise rejects
Throw(type, what) ==
    /\ status' = "failed"
    /\ error' = what
    /\ last' = [type |-> type, index |-> index, ok |-> FALSE]
    /\ prevRegions' = rgRegions
    /\ UNCHANGED index

\* Parsing each stage string only when the loop reaches it: a string that
\* parses to no stage is found when its turn comes
ParseLazily ==
    /\ status = "start"
    /\ status' = "running"
    /\ scripts' = WithDefaultPrint(ParseAll(scriptStrings))
    /\ UNCHANGED <<scriptStrings, index, error, rgRegions, sedPos, inFlight, disk, stdout,
                   procs, last, prevRegions, rgOut, stdinFiles, genVars>>

\* main's first lines: every stage string is parsed, then the default print
\* stage is pushed
Parse ==
    /\ status = "start"
    /\ IF \E i \in 1..Len(scriptStrings) : parseScript(scriptStrings[i]) = UnknownScript
       THEN /\ status' = "failed"
            /\ error' = "UnknownScriptType"
            /\ UNCHANGED scripts
       ELSE /\ status' = "running"
            /\ scripts' = WithDefaultPrint(ParseAll(scriptStrings))
            /\ UNCHANGED error
    /\ UNCHANGED <<scriptStrings, index, rgRegions, sedPos, inFlight, disk, stdout, procs,
                   last, prevRegions, rgOut, stdinFiles, genVars>>

\* an rg stage: the search over the working directory (first stage) or over
\* the files of the current regions, its lines coalesced, then the region list
\* replaced (first stage) or filtered.  The search may fail after what it wrote.
Rg ==
    /\ Running
    /\ Script.type = "rg"
    /\ IF Script.flags = UndefinedStr
       THEN \* flags.includes of undefined: a TypeError before any process starts
            /\ Throw("rg", "TypeError")
            /\ UNCHANGED <<rgRegions, procs, rgOut>>
       ELSE LET files == IF isFirstScript THEN UndefinedFiles ELSE uniqueFiles(rgRegions)
            IN  \E out \in SearchOutputs(disk, RgScope(disk, files)) : \E ok \in RgExits(out) :
                    /\ procs' = Append(procs, RgProc(Script, files, ok))
                    /\ rgOut' = out
                    /\ IF ok
                       THEN /\ rgRegions' = RgResult(isFirstScript, rgRegions,
                                                     rgLinesToRegions(executeRg(LinesOf(out))))
                            /\ Continue("rg")
                       ELSE /\ rgRegions' =
                                   IF isFirstScript
                                   THEN rgLinesToRegionsThrown(executeRg(LinesOf(out)))
                                   ELSE rgRegions
                            /\ Throw("rg", "ExternalProcessFailure")
    /\ UNCHANGED <<scriptStrings, scripts, sedPos, inFlight, disk, stdout, stdinFiles,
                   genVars>>

\* an rg-negated stage
RgNegated ==
    /\ Running
    /\ Script.type = "rg-negated"
    /\ LET unique == uniqueFiles(rgRegions)
           files == IF Len(unique) > 0 THEN unique ELSE UndefinedFiles
       IN  \E out \in SearchOutputs(disk, RgScope(disk, files)) : \E ok \in RgExits(out) :
               /\ procs' = Append(procs, RgProc(Script, files, ok))
               /\ rgOut' = out
               /\ IF ok
                  THEN /\ rgRegions' = SubtractByOverlap(rgRegions,
                                                         rgLinesToRegions(executeRg(LinesOf(out))))
                       /\ Continue("rg-negated")
                  ELSE /\ UNCHANGED rgRegions
                       /\ Throw("rg-negated", "ExternalProcessFailure")
    /\ UNCHANGED <<scriptStrings, scripts, sedPos, inFlight, disk, stdout, stdinFiles,
                   genVars>>

\* The loop going on to its next region without awaiting sedRegion
SedMayStartAlways == TRUE

\* the for loop of the sed branch goes on to its next region only when the
\* awaited sedRegion has resolved
SedMayStart == inFlight = <<>>

\* a sed stage, the loop's turn for one region: sedRegion starts the sed process
\* (in inFlight, ok says that it has not failed so far)
SedStart ==
    /\ Running
    /\ Script.type = "sed"
    /\ sedPos + Len(inFlight) < Len(rgRegions)
    /\ SedMayStart
    /\ inFlight' = Append(inFlight, SedProc(rgRegions[sedPos + Len(inFlight) + 1],
                                            Script, TRUE))
    /\ UNCHANGED <<scriptStrings, scripts, index, status, error, rgRegions, sedPos, disk,
                   stdout, procs, last, prevRegions, rgOut, stdinFiles, genVars>>

\* a sed stage, the oldest started sed process exits: it has edited its lines
\* of the file in place, or it has failed and the await throws
SedExit ==
    /\ Running
    /\ Script.type = "sed"
    /\ inFlight # <<>>
    /\ LET proc == Head(inFlight)
       IN  \E ok \in BOOLEAN :
               /\ procs' = Append(procs, [proc EXCEPT !.ok = ok])
               /\ inFlight' = Tail(inFlight)
               /\ IF ok
                  THEN /\ disk' = [disk EXCEPT ![proc.filepath] =
                                      SedLines(@, proc.firstLineNumber,
                                               proc.lastLineNumber, Script)]
                       /\ sedPos' = sedPos + 1
                       /\ UNCHANGED <<index, status, error, last, prevRegions>>
                  ELSE /\ Throw("sed", "ExternalProcessFailure")
                       /\ UNCHANGED <<disk, sedPos>>
    /\ UNCHANGED <<scriptStrings, scripts, rgRegions, stdout, rgOut, stdinFiles, genVars>>

\* a sed stage, after the last region
SedDone ==
    /\ Running
    /\ Script.type = "sed"
    /\ sedPos = Len(rgRegions)
    /\ inFlight = <<>>
    /\ sedPos' = 0
    /\ Continue("sed")
    /\ UNCHANGED <<scriptStrings, scripts, rgRegions, inFlight, disk, stdout, procs, rgOut,
                   stdinFiles, genVars>>

\* a print-files stage
PrintFiles ==
    /\ Running
    /\ Script.type = "print-files"
    /\ stdout' = stdout \o PrintFilesLines(rgRegions)
    /\ Continue("print-files")
    /\ UNCHANGED <<scriptStrings, scripts, rgRegions, sedPos, inFlight, disk, procs, rgOut,
                   stdinFiles, genVars>>

\* A print-regions stage that stores in each region the last line it has found
\* in the file
PrintRegionsClamping ==
    /\ Running
    /\ Script.type = "print-regions"
    /\ LET run == PrintRegionsRun(disk, rgRegions)
       IN  /\ stdout' = stdout \o run.lines
           /\ IF run.ok THEN Continue("print-regions")
              ELSE Throw("print-regions", "FileReadFailure")
    /\ rgRegions' = [i \in 1..Len(rgRegions) |->
                        IF rgRegions[i].lastLineNumber > Len(disk[rgRegions[i].filepath])
                        THEN [rgRegions[i] EXCEPT
                                 !.lastLineNumber = Len(disk[rgRegions[i].filepath])]
                        ELSE rgRegions[i]]
    /\ UNCHANGED <<scriptStrings, scripts, sedPos, inFlight, disk, procs, rgOut,
                   stdinFiles, genVars>>

\* a print-regions stage
PrintRegions ==
    /\ Running
    /\ Script.type = "print-regions"
    /\ LET run == PrintRegionsRun(disk, rgRegions)
       IN  /\ stdout' = stdout \o run.lines
           /\ IF run.ok THEN Continue("print-regions")
              ELSE Throw("print-regions", "FileReadFailure")
    /\ UNCHANGED <<scriptStrings, scripts, rgRegions, sedPos, inFlight, disk, procs, rgOut,
                   stdinFiles, genVars>>

\* a glob stage
Glob ==
    /\ Running
    /\ Script.type = "glob"
    /\ rgRegions' = GlobFilter(rgRegions, Script.pattern)
    /\ Continue("glob")
    /\ UNCHANGED <<scriptStrings, scripts, sedPos, inFlight, disk, stdout, procs, rgOut,
                   stdinFiles, genVars>>

\* a files-from-stdin stage
FilesFromStdin ==
    /\ Running
    /\ Script.type = "files-from-stdin"
    /\ \E raw \in SeqsUpTo(RawStdinLines, MaxStdin) :
           /\ stdinFiles' = readFilesFromStdin(raw)
           /\ rgRegions' = StdinResult(isFirstScript, rgRegions, readFilesFromStdin(raw))
    /\ Continue("files-from-stdin")
    /\ UNCHANGED <<scriptStrings, scripts, sedPos, inFlight, disk, stdout, procs, rgOut,
                   genVars>>

\* the loop is over: main returns
Finish ==
    /\ status = "running"
    /\ index = Len(scripts)
    /\ status' = "done"
    /\ UNCHANGED <<scriptStrings, scripts, index, error, rgRegions, sedPos, inFlight, disk,
                   stdout, procs, last, prevRegions, rgOut, stdinFiles, genVars>>

Next ==
    \/ Parse
    \/ Rg
    \/ RgNegated
    \/ SedStart
    \/ SedExit
    \/ SedDone
    \/ PrintFiles
    \/ PrintRegions
    \/ Glob
    \/ FilesFromStdin
    \/ Finish

Spec == Init /\ [][Next]_vars

---------------------------------------------------------------------------
(* rgLinesToRegions run alone, turn by turn, on any input                  *)

\* how many lines the input has at most
MaxGenLen == 3

\* the line numbers of the input go from 1 to this, and 9 and 10 besides
MaxGenLine == 3

X == <<"x">>
KV == <<"k", ":", "v">>

\* lines that are no match: the line number is missing, or is no number
NoNumberLine == [filepath |-> FileA, lineNumber |-> NaN, text |-> <<>>, line |-> FileA]
BadNumberLine ==
    [filepath |-> FileA, lineNumber |-> NaN, text |-> X,
     line |-> Join(<<FileA, <<"z", "z">>, X>>, ":")]

GenMatches ==
    {Match(FileA, n, X) : n \in (1..MaxGenLine) \cup {9, 10}}
        \cup {Match(FileA, 1, KV)}
        \cup {Match(FileB, n, X) : n \in 1..2}
        \cup {NoNumberLine, BadNumberLine}

InitGen ==
    /\ genLines \in SeqsUpTo(GenMatches, MaxGenLen)
    /\ genPos = 0
    /\ genRegion = <<>>
    /\ genOut = <<>>
    /\ status = "coalesce"
    /\ scriptStrings = <<>>
    /\ scripts = <<>>
    /\ index = 0
    /\ error = "none"
    /\ rgRegions = <<>>
    /\ sedPos = 0
    /\ inFlight = <<>>
    /\ disk = InitDisk
    /\ stdout = <<>>
    /\ procs = <<>>
    /\ last = NoStage
    /\ prevRegions = <<>>
    /\ rgOut = <<>>
    /\ stdinFiles = <<>>

\* one turn of the loop
GenStep ==
    /\ status = "coalesce"
    /\ genPos < Len(genLines)
    /\ LET st == RegionStep([region |-> genRegion, out |-> genOut], genLines[genPos + 1].line)
       IN  /\ genRegion' = st.region
           /\ genOut' = st.out
    /\ genPos' = genPos + 1
    /\ UNCHANGED <<genLines, pipeVars>>

\* the input is over: the open region is yielded and the generator returns
GenEnd ==
    /\ status = "coalesce"
    /\ genPos = Len(genLines)
    /\ genOut' = RegionEnd([region |-> genRegion, out |-> genOut])
    /\ genRegion' = <<>>
    /\ status' = "coalesced"
    /\ UNCHANGED <<genLines, genPos, scriptStrings, scripts, index, error, rgRegions,
                   sedPos, inFlight, disk, stdout, procs, last, prevRegions, rgOut,
                   stdinFiles>>

NextGen == GenStep \/ GenEnd

SpecGen == InitGen /\ [][NextGen]_vars

---------------------------------------------------------------------------
(* The claims.  A search's output is read here as the matches it renders   *)
(* (filepath, lineNumber, text), not through the code's parsing.           *)

\* the line numbers matched in file f
MatchedLines(matches, f) ==
    {matches[i].lineNumber : i \in {j \in 1..Len(matches) : matches[j].filepath = f}}

FilesOf(matches) == {matches[i].filepath : i \in 1..Len(matches)}

\* every line renders a match with a line number
WellFormed(matches) == \A i \in 1..Len(matches) : matches[i].lineNumber # NaN

\* grouped by file, and strictly ascending line numbers within a file
SortedStream(matches) ==
    /\ WellFormed(matches)
    /\ \A i, j, k \in 1..Len(matches) :
           (i < j /\ j < k /\ matches[i].filepath = matches[k].filepath)
               => matches[j].filepath = matches[i].filepath
    /\ \A i, j \in 1..Len(matches) :
           (i < j /\ matches[i].filepath = matches[j].filepath)
               => matches[i].lineNumber < matches[j].lineNumber

\* the maximal runs of consecutive matched lines, <<filepath, firstLine, lastLine>>
RunsOf(matches) ==
    UNION {
        {<<f, a, b>> : a, b \in MatchedLines(matches, f)} \cap
        {t \in {f} \X MatchedLines(matches, f) \X MatchedLines(matches, f) :
            /\ t[2] <= t[3]
            /\ \A n \in t[2]..t[3] : n \in MatchedLines(matches, f)
            /\ (t[2] - 1) \notin MatchedLines(matches, f)
            /\ (t[3] + 1) \notin MatchedLines(matches, f)}
        : f \in FilesOf(matches)}

\* a region's file and bounds
Bounds(r) == <<r.filepath, r.firstLineNumber, r.lastLineNumber>>

\* the lines the regions of file f cover
Covered(regions, f) ==
    UNION {regions[i].firstLineNumber..regions[i].lastLineNumber :
               i \in {j \in 1..Len(regions) : regions[j].filepath = f}}

\* no two regions of one file share a line or are next to each other
Canonical(regions) ==
    \A i, j \in 1..Len(regions) :
        (i # j /\ regions[i].filepath = regions[j].filepath)
            => \/ regions[i].lastLineNumber < regions[j].firstLineNumber - 1
               \/ regions[j].lastLineNumber < regions[i].firstLineNumber - 1

\* the run t and the region r share a line
RunOverlaps(t, r) ==
    t[1] = r.filepath /\ t[2] <= r.lastLineNumber /\ t[3] >= r.firstLineNumber

\* the stage of this type has just completed, without an exception
Completed(type) == last.type = type /\ last.ok

\* C1: for every match stream that is grouped by file with ascending line
\* numbers within a file, the regions the coalescer has yielded when it returns
\* have firstLine <= lastLine, are pairwise disjoint and non-adjacent within a
\* file, cover for each file exactly the line numbers matched in it, and are
\* none for the empty stream.
C1_CoalescedRegions ==
    (status = "coalesced" /\ SortedStream(genLines)) =>
        /\ \A i \in 1..Len(genOut) : genOut[i].firstLineNumber <= genOut[i].lastLineNumber
        /\ Canonical(genOut)
        /\ \A i \in 1..Len(genOut) : genOut[i].filepath \in FilesOf(genLines)
        /\ \A f \in FilesOf(genLines) : Covered(genOut, f) = MatchedLines(genLines, f)
        /\ genLines = <<>> => genOut = <<>>

\* a sorted stream has given two regions of one file, the first of several lines
C1_Witness ==
    /\ status = "coalesced"
    /\ SortedStream(genLines)
    /\ Len(genOut) = 2
    /\ genOut[1].filepath = genOut[2].filepath
    /\ genOut[1].firstLineNumber < genOut[1].lastLineNumber

\* C2: in every state main can reach, the region list is in canonical form: no
\* two regions of the same file overlap or are adjacent.
C2_CanonicalForm == Canonical(rgRegions)

\* C3: a positive search stage that is not the first stage leaves exactly the
\* prior regions that some region of the new search in the same file overlaps
\* (both ends inclusive, every new region of the file tested), each with its
\* prior file and bounds, in their prior order.
C3_IntersectByOverlap ==
    (Completed("rg") /\ last.index > 0) =>
        rgRegions = SelectSeq(prevRegions,
                              LAMBDA r : \E t \in RunsOf(rgOut) : RunOverlaps(t, r))

\* a region of lines 1-3 survives a new search that matched its line 2 only,
\* while another region is dropped
C3_Witness ==
    /\ Completed("rg")
    /\ last.index > 0
    /\ Len(rgRegions) < Len(prevRegions)
    /\ <<FileA, 2, 2>> \in RunsOf(rgOut)
    /\ \E i \in 1..Len(rgRegions) : Bounds(rgRegions[i]) = <<FileA, 1, 3>>

\* C4: a negated-search stage leaves exactly the prior regions that no region
\* of the negated search in the same file overlaps; a region overlapped on a
\* single boundary line is dropped whole, and no region is split or changed.
C4_SubtractByOverlap ==
    Completed("rg-negated") =>
        rgRegions = SelectSeq(prevRegions,
                              LAMBDA r : ~\E t \in RunsOf(rgOut) : RunOverlaps(t, r))

\* the region of lines 1-2 is dropped by a negated region of lines 2-3, which
\* it shares line 2 with, and another region stays
C4_Witness ==
    /\ Completed("rg-negated")
    /\ <<FileA, 2, 3>> \in RunsOf(rgOut)
    /\ \E i \in 1..Len(prevRegions) : Bounds(prevRegions[i]) = <<FileA, 1, 2>>
    /\ rgRegions # <<>>
    /\ \A i \in 1..Len(rgRegions) : rgRegions[i].filepath # FileA

\* C5: a glob stage, and a files-from-stdin stage that is not the first stage,
\* leave exactly the prior regions whose file path matches the glob, or is in
\* the file list, with their bounds and order; every other file's regions go.
C5_FilterByPredicate ==
    /\ Completed("glob") =>
           rgRegions = SelectSeq(prevRegions,
                                 LAMBDA r : minimatch(r.filepath, scripts[last.index + 1].pattern))
    /\ (Completed("files-from-stdin") /\ last.index > 0) =>
           rgRegions = SelectSeq(prevRegions,
                                 LAMBDA r : \E i \in 1..Len(stdinFiles) : stdinFiles[i] = r.filepath)

\* a glob stage has kept the regions of b.ts and dropped those of a.js
C5_Witness ==
    /\ Completed("glob")
    /\ \E i \in 1..Len(prevRegions) : prevRegions[i].filepath = FileA
    /\ rgRegions # <<>>
    /\ \A i \in 1..Len(rgRegions) : rgRegions[i].filepath = FileB

\* C6: when files-from-stdin is the first stage, the region list has exactly one
\* region per path of the file list, in list order, each from line 1 to the
\* whole-file sentinel.
C6_StdinSeed ==
    (Completed("files-from-stdin") /\ last.index = 0) =>
        /\ Len(rgRegions) = Len(stdinFiles)
        /\ \A i \in 1..Len(rgRegions) :
               Bounds(rgRegions[i]) = <<stdinFiles[i], 1, MAX_SAFE_INTEGER>>

\* the list b.ts, a.js has seeded two regions, in that order
C6_Witness ==
    /\ Completed("files-from-stdin")
    /\ last.index = 0
    /\ stdinFiles = <<FileB, FileA>>
    /\ Len(rgRegions) = 2

\* C7, as claimed: a files-from-stdin stage that runs with no current region
\* seeds one whole-file region per listed path, at any place in the stage list.
C7_SeedsWheneverEmpty ==
    (Completed("files-from-stdin") /\ prevRegions = <<>>) =>
        /\ Len(rgRegions) = Len(stdinFiles)
        /\ \A i \in 1..Len(rgRegions) :
               Bounds(rgRegions[i]) = <<stdinFiles[i], 1, MAX_SAFE_INTEGER>>

\* C7, amended: a files-from-stdin stage seeds only as the first stage; at a
\* later place with no current region it filters, and the region list stays
\* empty whatever the file list is.
C7_SeedsOnlyWhenFirst ==
    (Completed("files-from-stdin") /\ last.index > 0 /\ prevRegions = <<>>) =>
        rgRegions = <<>>

\* a later files-from-stdin stage has run with no region and a file list that
\* is not empty
C7_Witness ==
    /\ Completed("files-from-stdin")
    /\ last.index > 0
    /\ prevRegions = <<>>
    /\ stdinFiles # <<>>
    /\ rgRegions = <<>>

\* the place in the stream of the match of line n of file f
StreamPos(matches, f, n) ==
    CHOOSE i \in 1..Len(matches) : matches[i].filepath = f /\ matches[i].lineNumber = n

\* C8: when a positive search stage is the first stage, the region list after
\* it is exactly the coalesced regions of that search's output, in stream
\* order, with the matched texts: nothing is filtered and nothing else is kept.
C8_FirstSearchReplaces ==
    (Completed("rg") /\ last.index = 0) =>
        /\ Len(rgRegions) = Cardinality(RunsOf(rgOut))
        /\ {Bounds(rgRegions[i]) : i \in 1..Len(rgRegions)} = RunsOf(rgOut)
        /\ \A i, j \in 1..Len(rgRegions) :
               i < j => StreamPos(rgOut, rgRegions[i].filepath, rgRegions[i].firstLineNumber)
                            < StreamPos(rgOut, rgRegions[j].filepath, rgRegions[j].firstLineNumber)
        /\ \A i \in 1..Len(rgRegions) :
               rgRegions[i].lines =
                   [k \in 1..(rgRegions[i].lastLineNumber - rgRegions[i].firstLineNumber + 1) |->
                       rgOut[StreamPos(rgOut, rgRegions[i].filepath,
                                       rgRegions[i].firstLineNumber + k - 1)].text]

\* a first search has given three regions, the one of b.ts first
C8_Witness ==
    /\ Completed("rg")
    /\ last.index = 0
    /\ Len(rgRegions) = 3
    /\ rgRegions[1].filepath = FileB

\* the stage list has been parsed
Parsed == status \in {"running", "done"} \/ (status = "failed" /\ error # "UnknownScriptType")

IsPrint(script) == script.type \in {"print-files", "print-regions"}

\* C9: the stages of the command line keep their order and content; when none
\* of them is a print stage, exactly one print-regions stage follows them; a
\* list that ends in print-files gets no further stage.
C9_DefaultPrint ==
    Parsed =>
        LET user == ParseAll(scriptStrings)
            n == Len(scriptStrings)
        IN  /\ Len(scripts) >= n
            /\ SubSeq(scripts, 1, n) = user
            /\ (\A i \in 1..n : ~IsPrint(user[i]))
                   => (Len(scripts) = n + 1 /\ scripts[n + 1] = [type |-> "print-regions"])
            /\ (n > 0 /\ user[n].type = "print-files") => scripts = user

\* a command line that ends in a search and has no print stage runs with a
\* print-regions stage after it
C9_Witness ==
    /\ status = "running"
    /\ Len(scriptStrings) = 2
    /\ scriptStrings[2] = S_rg
    /\ Len(scripts) = 3
    /\ scripts[3].type = "print-regions"

\* some external process has failed
FailedProc(ps) == \E i \in 1..Len(ps) : ~ps[i].ok

\* C10: when a search or sed process fails, main rejects with that failure in
\* the stage that started it, nothing printed is lost, and from then on nothing
\* happens: no later stage, no further process (no edit of a later region), no
\* change of the region list.
C10_AbortOnProcessFailure ==
    [][/\ FailedProc(procs) => UNCHANGED vars
       /\ FailedProc(procs') =>
              /\ ~procs'[Len(procs')].ok
              /\ status' = "failed"
              /\ error' = "ExternalProcessFailure"
              /\ index' = index
              /\ stdout' = stdout
       /\ status' = "done" => ~FailedProc(procs')]_vars

\* the sed process of a region that is not the last one has failed, with a
\* print stage still to come
C10_Witness ==
    /\ status = "failed"
    /\ procs # <<>>
    /\ procs[Len(procs)].cmd = "sed"
    /\ ~procs[Len(procs)].ok
    /\ sedPos + 1 < Len(rgRegions)
    /\ index + 1 < Len(scripts)

\* the input lines the coalescer has consumed whose line-number field is
\* missing or is not a number
MalformedConsumed ==
    {i \in 1..genPos : Len(Split(genLines[i].line, ":")) < 2
                       \/ Number(Split(genLines[i].line, ":")[2]) = NaN}

\* C11: once the coalescer has consumed a line whose line-number field is
\* missing or not a number it has failed with MalformedMatchLine, and no region
\* it holds open or has yielded is built from such a line.
C11_MalformedLineFails ==
    /\ MalformedConsumed # {} => status = "failed" /\ error = "MalformedMatchLine"
    /\ \A i \in 1..Len(genOut) : genOut[i].firstLineNumber # NaN
    /\ \A i \in 1..Len(genRegion) : genRegion[i].firstLineNumber # NaN

\* the report of region r over the files d: the lines of the file numbered
\* firstLine up to lastLine or to the end of the file, whichever is first
ReportOf(d, r) ==
    LET file == d[r.filepath]
        upTo == IF r.lastLineNumber < Len(file) THEN r.lastLineNumber ELSE Len(file)
    IN  [k \in 1..(upTo - r.firstLineNumber + 1) |->
            r.filepath \o <<":">> \o NumberToString(r.firstLineNumber + k - 1)
                       \o <<":">> \o file[r.firstLineNumber + k - 1]]

\* C12: a print-regions stage adds to the output, region after region in the
\* order of the region list, one filepath:lineNumber:text line for each line of
\* the file as it is on disk at that moment whose number is within the
\* region's bounds, ascending, and nothing else; a whole-file region prints
\* the file through its last line.
C12_PrintRegionsFromDisk ==
    [][Running /\ Script.type = "print-regions" =>
           stdout' = stdout \o Concat([i \in 1..Len(rgRegions) |->
                                          ReportOf(disk, rgRegions[i])])]_vars

\* a print-regions stage has printed a line that a sed stage had edited after
\* the search stored it in the region
C12_Witness ==
    /\ Completed("print-regions")
    /\ procs # <<>>
    /\ procs[Len(procs)].cmd = "sed"
    /\ \E i \in 1..Len(rgRegions) :
           LET r == rgRegions[i]
           IN  /\ r.lines # <<>>
               /\ r.lines[1] # disk[r.filepath][r.firstLineNumber]
               /\ Includes(stdout, ReportOf(disk, r)[1])

\* the place of the first region of file f in regions
FirstRegionOf(regions, f) ==
    CHOOSE i \in 1..Len(regions) :
        /\ regions[i].filepath = f
        /\ \A j \in 1..(i - 1) : regions[j].filepath # f

\* C13: a print-files stage adds to the output the paths that have a region
\* in the region list, each of them once and no other path, a path whose
\* first region comes earlier in the list before a path whose first region
\* comes later.
C13_PrintFilesDistinct ==
    [][Running /\ Script.type = "print-files" =>
           \E printed \in SeqsUpTo(Files, Cardinality(Files)) :
               /\ stdout' = stdout \o printed
               /\ {printed[i] : i \in 1..Len(printed)}
                      = {rgRegions[i].filepath : i \in 1..Len(rgRegions)}
               /\ \A i, j \in 1..Len(printed) :
                      i < j => FirstRegionOf(rgRegions, printed[i])
                                   < FirstRegionOf(rgRegions, printed[j])]_vars

\* a print-files stage has printed two paths, the second of them the path of
\* two regions
C13_Witness ==
    /\ Completed("print-files")
    /\ Len(rgRegions) = 3
    /\ rgRegions[1].filepath = FileB
    /\ rgRegions[2].filepath = FileA
    /\ rgRegions[3].filepath = FileA
    /\ stdout = <<FileB, FileA>>

\* process p is a sed call on region r: its file, its first and last line
SedCallOn(p, r) ==
    /\ p.cmd = "sed"
    /\ p.filepath = r.filepath
    /\ p.firstLineNumber = r.firstLineNumber
    /\ p.lastLineNumber = r.lastLineNumber

\* files d and e differ at most in the lines of file f numbered firstLine..lastLine
SameOutside(d, e, f, firstLine, lastLine) ==
    \A g \in DOMAIN d :
        /\ Len(e[g]) = Len(d[g])
        /\ \A n \in 1..Len(d[g]) :
               (g # f \/ n < firstLine \/ n > lastLine) => e[g][n] = d[g][n]

\* in a run of a search, a sed stage and the default print stage, the print
\* stage is about to run
SearchThenSed ==
    /\ Running
    /\ index = 2
    /\ Len(scripts) = 3
    /\ scripts[1].type = "rg"
    /\ scripts[2].type = "sed"
    /\ scripts[3].type = "print-regions"

\* C14: a sed stage issues its calls one region after another, in the order of
\* the region list, each on its region's file and line range, and a call is
\* issued only when none is in flight; the stage ends after the call of the
\* last region has completed, with one completed call per region; sed runs in
\* no other stage.  After a search and a sed stage alone, the default print
\* stage finds one completed call per region and prints the lines of the
\* regions as sed has edited them.
C14_SequentialSubstitutions ==
    [][/\ Len(inFlight') <= 1
       /\ (Running /\ Script.type # "sed") => sedPos = 0 /\ inFlight = <<>>
       /\ (procs' # procs /\ procs'[Len(procs')].cmd = "sed")
              => Running /\ Script.type = "sed"
       /\ (Running /\ Script.type = "sed") =>
              \/ /\ inFlight = <<>>
                 /\ sedPos < Len(rgRegions)
                 /\ Len(inFlight') = 1
                 /\ SedCallOn(inFlight'[1], rgRegions[sedPos + 1])
                 /\ UNCHANGED <<procs, sedPos, disk, index, rgRegions>>
              \/ /\ Len(inFlight) = 1
                 /\ inFlight' = <<>>
                 /\ Len(procs') = Len(procs) + 1
                 /\ SedCallOn(procs'[Len(procs')], rgRegions[sedPos + 1])
                 /\ SameOutside(disk, disk', inFlight[1].filepath,
                                inFlight[1].firstLineNumber, inFlight[1].lastLineNumber)
                 /\ \/ procs'[Len(procs')].ok /\ sedPos' = sedPos + 1 /\ index' = index
                    \/ ~procs'[Len(procs')].ok /\ status' = "failed" /\ disk' = disk
              \/ /\ inFlight = <<>>
                 /\ sedPos = Len(rgRegions)
                 /\ index' = index + 1
                 /\ UNCHANGED <<procs, disk, rgRegions>>
       /\ SearchThenSed =>
              LET seds == SelectSeq(procs, LAMBDA p : p.cmd = "sed")
              IN  /\ Len(seds) = Len(rgRegions)
                  /\ \A i \in 1..Len(seds) : seds[i].ok /\ SedCallOn(seds[i], rgRegions[i])
                  /\ stdout' = Concat([i \in 1..Len(rgRegions) |->
                         LET r == rgRegions[i]
                             edited == SedLines(r.lines, 1, Len(r.lines), scripts[2])
                         IN  [k \in 1..Len(r.lines) |->
                                 r.filepath \o <<":">>
                                     \o NumberToString(r.firstLineNumber + k - 1)
                                     \o <<":">> \o edited[k]]])]_vars

\* a search has found several regions, sed has edited them, and the default
\* print stage has printed the first line of a.js with bar in the place of foo
C14_Witness ==
    /\ Completed("print-regions")
    /\ last.index = 2
    /\ scripts[1].type = "rg"
    /\ scripts[2].type = "sed"
    /\ Len(rgRegions) >= 2
    /\ Len(procs) = 1 + Len(rgRegions)
    /\ Includes(stdout, FileA \o <<":", "1", ":", "b", "a", "r">>)

\* some stage string of the run has a tag that is none of the stage types
HasUnknownTag == \E i \in 1..Len(scriptStrings) : scriptStrings[i] = S_bogus

\* C15: when a stage string at any place has an unrecognized tag, the run
\* never gets past parsing: it fails with the unknown-stage error while no
\* stage has run, no process has been started, nothing has been read from
\* stdin or changed on disk, no region exists and nothing has been printed.
C15_ParseBeforeExecute ==
    HasUnknownTag =>
        /\ status \in {"start", "failed"}
        /\ status = "failed" => error = "UnknownScriptType"
        /\ scripts = <<>>
        /\ index = 0
        /\ last = NoStage
        /\ procs = <<>>
        /\ inFlight = <<>>
        /\ rgOut = <<>>
        /\ stdinFiles = <<>>
        /\ rgRegions = <<>>
        /\ disk = InitDisk
        /\ stdout = <<>>

\* the run has failed on an unknown tag in the second place, after a search
\* stage string
C15_Witness ==
    /\ status = "failed"
    /\ error = "UnknownScriptType"
    /\ scriptStrings = <<S_rg, S_bogus>>
    /\ procs = <<>>

\* region r as the search lines of its single matches: one line of its file
\* for each of its texts, numbered from firstLine on (a number that is NaN
\* stays NaN)
Expand(r) ==
    [k \in 1..Len(r.lines) |->
        r.filepath \o <<":">>
            \o NumberToString(IF r.firstLineNumber = NaN THEN NaN
                              ELSE r.firstLineNumber + k - 1)
            \o <<":">> \o r.lines[k]]

\* C16: every region the coalescer has yielded holds one text for each line
\* from firstLine to lastLine, and coalescing the lines it expands to yields
\* that one region again, with the same file, bounds and texts.
C16_CoalescingIdempotent ==
    status = "coalesced" =>
        \A i \in 1..Len(genOut) :
            /\ genOut[i].firstLineNumber # NaN =>
                   Len(genOut[i].lines)
                       = genOut[i].lastLineNumber - genOut[i].firstLineNumber + 1
            /\ rgLinesToRegions(Expand(genOut[i])) = <<genOut[i]>>

\* the coalescer has yielded a region of two lines whose first text holds a
\* colon, after another region
C16_Witness ==
    /\ status = "coalesced"
    /\ Len(genOut) = 2
    /\ Len(genOut[2].lines) = 2
    /\ genOut[2].lines[1] = KV

\* the latest stage to end is a search that was not the first stage and that
\* has run its process
LaterSearch ==
    /\ last.type \in {"rg", "rg-negated"}
    /\ last.index > 0
    /\ error # "TypeError"

\* the search process that exited last
LatestSearch ==
    LET searches == SelectSeq(procs, LAMBDA p : p.cmd = "rg")
    IN  searches[Len(searches)]

\* the files that had a region when the latest stage began
PrevFiles == {prevRegions[i].filepath : i \in 1..Len(prevRegions)}

\* the file arguments of process p name exactly the files of PrevFiles, each
\* of them once
ScopedToPrevFiles(p) ==
    /\ p.cmd = "rg"
    /\ p.files # UndefinedFiles
    /\ {p.files[i] : i \in 1..Len(p.files)} = PrevFiles
    /\ \A i, j \in 1..Len(p.files) : p.files[i] = p.files[j] => i = j

\* C17 as stated: every search that is not the first stage is given exactly
\* the files of the current regions, and finds matches in no other file, also
\* when there is no region.
C17_ScopedAlways ==
    LaterSearch =>
        /\ ScopedToPrevFiles(LatestSearch)
        /\ FilesOf(rgOut) \subseteq PrevFiles

\* C17, amended: a search that is not the first stage and runs with at least
\* one region is given exactly the files of the current regions, each once,
\* and finds matches in no other file; with no region it is given no file
\* argument (an empty list by rg, none by !rg) and searches the working
\* directory.
C17_ScopedWhenNonEmpty ==
    LaterSearch =>
        IF prevRegions # <<>>
        THEN /\ ScopedToPrevFiles(LatestSearch)
             /\ FilesOf(rgOut) \subseteq PrevFiles
        ELSE LatestSearch.files = (IF last.type = "rg" THEN <<>> ELSE UndefinedFiles)

\* a second search has run on three regions, two of them of a.js, and was
\* given b.ts and a.js
C17_Witness ==
    /\ Completed("rg")
    /\ last.index = 1
    /\ Len(prevRegions) = 3
    /\ LatestSearch.files = <<FileB, FileA>>

\* C18: a glob stage that begins with no region, as the first stage or later,
\* ends with no region, whatever its pattern and the files on disk; and
\* whenever a stage that began with no region leaves some, it is the first
\* stage and either a files-from-stdin stage or a search.
C18_NoRegionsFromNothing ==
    /\ (last.type = "glob" /\ prevRegions = <<>>) => rgRegions = <<>>
    /\ (last.type # "none" /\ prevRegions = <<>> /\ rgRegions # <<>>) =>
           /\ last.index = 0
           /\ \/ last.type = "files-from-stdin"
              \/ last.type = "rg" /\ \E i \in 1..Len(procs) : procs[i].cmd = "rg"

\* a glob stage has run first, with a pattern that matches a file on disk,
\* and has left no region
C18_Witness ==
    /\ Completed("glob")
    /\ last.index = 0
    /\ \E f \in DOMAIN disk : minimatch(f, scripts[1].pattern)
    /\ rgRegions = <<>>

RECURSIVE IsSubsequence(_, _)
\* the regions a are regions of b with the same file and bounds, in b's order
IsSubsequence(a, b) ==
    IF a = <<>> THEN TRUE
    ELSE IF b = <<>> THEN FALSE
    ELSE IF Bounds(a[1]) = Bounds(b[1]) THEN IsSubsequence(Tail(a), Tail(b))
    ELSE IsSubsequence(a, Tail(b))

\* C19: after a stage that is not the first one, whatever its type and whether
\* it completed or failed, the region list is a subsequence of the list the
\* stage began with: no region is added, none changes its file or bounds, and
\* the order is kept; so a later search that finds matches while there is no
\* region leaves no region.
C19_MonotoneNarrowing ==
    last.index > 0 => IsSubsequence(rgRegions, prevRegions)

\* a search at the second place has found matches while there was no region,
\* and there is still none
C19_Witness ==
    /\ Completed("rg")
    /\ last.index = 1
    /\ prevRegions = <<>>
    /\ rgOut # <<>>
    /\ rgRegions = <<>>

\* the stage the loop is at is one of types
StageIn(types) == Running /\ Script.type \in types

\* C20: no step of a sed, print-files or print-regions stage changes the
\* number of regions, their order, or the file or bounds of any of them, also
\* the step in which a sed process has changed the file; and no step of a
\* print stage starts or ends a process or changes a file.
C20_NonSelectingFrame ==
    [][/\ StageIn({"sed", "print-files", "print-regions"}) =>
              /\ Len(rgRegions') = Len(rgRegions)
              /\ \A i \in 1..Len(rgRegions) : Bounds(rgRegions'[i]) = Bounds(rgRegions[i])
       /\ StageIn({"print-files", "print-regions"}) =>
              UNCHANGED <<procs, inFlight, disk>>]_vars

\* a sed stage has completed after changing a file on disk, and the regions,
\* one of them a whole file, are those it began with
C20_Witness ==
    /\ Completed("sed")
    /\ disk # InitDisk
    /\ rgRegions # <<>>
    /\ rgRegions[1].lastLineNumber = MAX_SAFE_INTEGER
    /\ rgRegions = prevRegions

====
